---- MODULE Spec2Model ----
(***************************************************************************)
(* QuizGen: the staging / commit / dedup pipeline of src/app.py.           *)
(*                                                                         *)
(* Text is modelled as a sequence of one-character strings, so that        *)
(* str.strip(), slicing and the f-string that builds the dedup key are     *)
(* computed as Python computes them.  The Flashcard table is a sequence of *)
(* rows in primary-key order (the order Flashcard.query.all() iterates);   *)
(* the id and created_at columns are not read by any modelled handler.     *)
(* One browser session is modelled by pending_flashcards and               *)
(* presentation_name, the two keys of its signed cookie; txn holds the     *)
(* /save_flashcards requests of two other sessions while they run, one     *)
(* database statement at a time.                                           *)
(***************************************************************************)
EXTENDS Integers, Sequences, FiniteSets, TLC

VARIABLES db, pending_flashcards, presentation_name, last, txn

vars == <<db, pending_flashcards, presentation_name, last, txn>>

-----------------------------------------------------------------------------
(* Bounds of the model. *)

MaxStore == 3        \* rows in the Flashcard table
MaxBatch == 2        \* cards returned by one extraction / generation, and batch length
MaxSel == 2          \* entries of the selected_cards form list
MaxCustom == 1       \* entries of each custom_* form list
MaxPrior == 2        \* rows of the table a single arbitrary request starts from
MaxDedupStore == 3   \* rows of the arbitrary table the dedup specification starts from
MaxConcPrior == 1    \* rows of the table two concurrent requests start from

(* Program constants. *)

BackLimit == 300     \* len(card['back']) > 300
BackKeep == 297      \* card['back'][:297]

-----------------------------------------------------------------------------
(* Text *)

Whitespace == {" "}

RECURSIVE lstrip(_)
lstrip(s) == IF s # <<>> /\ Head(s) \in Whitespace THEN lstrip(Tail(s)) ELSE s

RECURSIVE rstrip(_)
rstrip(s) ==
    IF s # <<>> /\ s[Len(s)] \in Whitespace THEN rstrip(SubSeq(s, 1, Len(s) - 1)) ELSE s

strip(s) == rstrip(lstrip(s))

Rep(c, n) == [i \in 1..n |-> c]

Ellipsis == <<".", ".", ".">>

-----------------------------------------------------------------------------
(* The data the handlers work on *)

\* Flashcard.type values; the text is abbreviated to one letter.
Vocabulary == <<"v">>
Formula == <<"f">>
Problem == <<"p">>

\* A variant of the summary table that names vocabulary terms only.
KnownTypesVocabularyOnly == {Vocabulary}

\* The keys of type_names, the table the upload summary is built from.
KnownTypes == {Vocabulary, Formula, Problem}

\* A card dict as the extractor / generator returns it and the session holds it.
Card(t, f, b) == [type |-> t, front |-> f, back |-> b]

\* A row of the Flashcard table (models.py), without id and created_at.
Flashcard(t, f, b, p) == [type |-> t, front |-> f, back |-> b, presentation_name |-> p]

\* session.get('presentation_name', 'custom'): Absent stands for a missing key.
Absent == "<absent>"
Custom == "custom"

\* Sequences over S of length lo..hi.
SeqsOf(S, lo, hi) == UNION {[1..n -> S] : n \in lo..hi}

\* Trim extra-long definitions: card['back'][:297] + '...' when len > 300.
TrimKeepsLimit(card) ==
    IF Len(card.back) > BackLimit
    THEN [card EXCEPT !.back = SubSeq(card.back, 1, BackLimit)]
    ELSE card

Trim(card) ==
    IF Len(card.back) > BackLimit
    THEN [card EXCEPT !.back = SubSeq(card.back, 1, BackKeep) \o Ellipsis]
    ELSE card

TrimAll(cards) == [i \in DOMAIN cards |-> Trim(cards[i])]

-----------------------------------------------------------------------------
(* Inputs the environment may supply *)

A == <<"a">>
B == <<"b">>
X == <<"x">>
Y == <<"y">>
LongBack == Rep("x", BackLimit + 1)

FileNames == {"p.pptx"}
PresentationNames == FileNames \cup {Custom}

\* What process_powerpoint may return, per card.
ExtractPool == {Card(Vocabulary, A, X), Card(Formula, B, LongBack)}

\* What generate_topic_flashcards may return, per card.
GeneratePool == {Card(Vocabulary, A, Y)}

\* An entry of the selected_cards form list: a decimal integer or other text.
Num(i) == [numeric |-> TRUE, value |-> i]
NotANumber == [numeric |-> FALSE, value |-> 0]

\* Any form data: indices below, inside and above the batch, and text.
IndexTokens == {Num(i) : i \in (-MaxBatch)..(MaxBatch - 1)} \cup {NotANumber}

\* The checkboxes of the review page: the positions of the listed cards.
ReviewTokens == {Num(i) : i \in 0..(MaxBatch - 1)}

CustomFrontPool == {<<" ", "a">>, <<" ">>}
CustomBackPool == {<<"y", " ">>}
CustomTypePool == {Vocabulary}

\* Where the database may raise inside a handler.
NoFault == "none"
SaveFaults == {NoFault, "delete", "insert"}

\* A POST to /save_flashcards.
SaveRequest(tokens, fronts, backs, types, clear, fault) ==
    [selected_cards |-> tokens, custom_fronts |-> fronts, custom_backs |-> backs,
     custom_types |-> types, clear_existing |-> clear, fault |-> fault]

\* The review page submitted by a browser: indices of listed cards, and custom
\* rows that each carry a front, a back and a type.
ReviewRequests ==
    {SaveRequest(tokens, fronts, [i \in DOMAIN fronts |-> <<"y", " ">>],
                 [i \in DOMAIN fronts |-> Vocabulary], clear, fault) :
        tokens \in SeqsOf(ReviewTokens, 0, MaxSel),
        fronts \in SeqsOf({<<" ", "a">>}, 0, MaxCustom),
        clear \in BOOLEAN, fault \in SaveFaults}

\* Arbitrary form data: the three custom lists need not have the same length.
AnyRequests ==
    {SaveRequest(tokens, fronts, backs, [i \in DOMAIN fronts |-> Vocabulary], clear, fault) :
        tokens \in SeqsOf(IndexTokens, 0, MaxSel),
        fronts \in SeqsOf(CustomFrontPool, 0, MaxCustom),
        backs \in SeqsOf(CustomBackPool, 0, MaxCustom),
        clear \in BOOLEAN, fault \in SaveFaults}

-----------------------------------------------------------------------------
(* The last request and its response, kept for the properties *)

NoRequest ==
    [op |-> "start", outcome |-> "", arg |-> Absent,
     selected_cards |-> <<>>, custom_fronts |-> <<>>, custom_backs |-> <<>>,
     custom_types |-> <<>>, clear_existing |-> FALSE,
     selected_flashcards |-> <<>>, new_count |-> 0, existing_count |-> 0,
     returned |-> <<>>, raw |-> <<>>, count |-> 0, cross_deleted |-> {},
     front_deleted |-> {}, prior_removed |-> -1,
     prev_db |-> <<>>]

\* The sessions whose requests run concurrently.
Sessions == {1, 2}

\* A session's cookie and the progress of its POST to /save_flashcards: the
\* handler's local presentation_name and selected_flashcards, the position of
\* the insert loop, and the rows added to the request's database session and
\* not yet committed.
Txn(pc, pending, name, pname, selected, clear, i, added) ==
    [pc |-> pc, pending_flashcards |-> pending, presentation_name |-> name,
     pname |-> pname, selected_flashcards |-> selected, clear_existing |-> clear,
     next |-> i, added |-> added]

\* No request of another session is running.
NoTxns == [s \in Sessions |-> Txn("idle", <<>>, Absent, Absent, <<>>, FALSE, 1, <<>>)]

Init ==
    /\ db = <<>>
    /\ pending_flashcards = <<>>
    /\ presentation_name = Absent
    /\ last = NoRequest
    /\ txn = NoTxns

-----------------------------------------------------------------------------
(* POST /upload *)

\* The request is turned down before the file is processed (no file part, empty
\* filename, wrong extension, the file cannot be saved), or process_powerpoint
\* raised: every one of these flashes an error and renders the index page.
upload_file_error ==
    /\ \E filename \in FileNames,
          o \in {"NoFile", "InvalidFileType", "SaveError", "ExtractionError"} :
         last' = [NoRequest EXCEPT !.op = "upload_file", !.outcome = o,
                                   !.arg = filename, !.prev_db = db]
    /\ UNCHANGED <<db, pending_flashcards, presentation_name, txn>>

\* A variant that stores the empty result in the session before returning.
upload_file_empty_stored ==
    /\ \E filename \in FileNames :
         /\ last' = [NoRequest EXCEPT !.op = "upload_file", !.outcome = "EmptyExtraction",
                                      !.arg = filename, !.prev_db = db]
         /\ pending_flashcards' = <<>>
         /\ presentation_name' = filename
    /\ UNCHANGED <<db, txn>>

\* process_powerpoint returned no cards.
upload_file_empty ==
    /\ \E filename \in FileNames :
         last' = [NoRequest EXCEPT !.op = "upload_file", !.outcome = "EmptyExtraction",
                                   !.arg = filename, !.prev_db = db]
    /\ UNCHANGED <<db, pending_flashcards, presentation_name, txn>>

\* process_powerpoint returned cards drawn from `pool`: they are trimmed and put
\* in the session, then the summary is built.  type_names[type_key] raises
\* KeyError for a type the table does not name; the except branch then flashes
\* the processing error, and the session keeps what was stored.
UploadOk(pool) ==
    \E filename \in FileNames, flashcards \in SeqsOf(pool, 1, MaxBatch) :
        LET summarised == \A i \in DOMAIN flashcards : flashcards[i].type \in KnownTypes
        IN /\ pending_flashcards' = TrimAll(flashcards)
           /\ presentation_name' = filename
           /\ last' = [NoRequest EXCEPT
                         !.op = "upload_file",
                         !.outcome = IF summarised THEN "ok" ELSE "ExtractionError",
                         !.arg = filename, !.raw = flashcards, !.prev_db = db]
           /\ UNCHANGED <<db, txn>>

upload_file_ok == UploadOk(ExtractPool)

upload_file == upload_file_error \/ upload_file_empty \/ upload_file_ok

-----------------------------------------------------------------------------
(* GET /review *)

review_flashcards ==
    /\ last' = [NoRequest EXCEPT !.op = "review_flashcards",
                                 !.outcome = IF pending_flashcards = <<>> THEN "NoBatch" ELSE "ok",
                                 !.returned = pending_flashcards,
                                 !.prev_db = db]
    /\ UNCHANGED <<db, pending_flashcards, presentation_name, txn>>

-----------------------------------------------------------------------------
(* POST /save_flashcards *)

\* [int(idx) for idx in selected_indices]; a ValueError discards the whole list.
ParseIndices(tokens) ==
    IF \A k \in DOMAIN tokens : tokens[k].numeric
    THEN [k \in DOMAIN tokens |-> tokens[k].value]
    ELSE <<>>

\* all_flashcards[i] for a Python list: a negative i counts from the end.
PyItem(list, i) == IF i >= 0 THEN list[i + 1] ELSE list[Len(list) + i + 1]

\* The guard of the selection loop.
IndexAccepted(i, n) == i < n

\* all_flashcards[i] raises IndexError when i < -len(all_flashcards).
RaisesIndexError(indices, all) ==
    \E k \in DOMAIN indices :
        IndexAccepted(indices[k], Len(all)) /\ indices[k] < -Len(all)

\* for i in selected_indices: if i < len(all_flashcards): append all_flashcards[i]
RECURSIVE SelectByIndices(_, _)
SelectByIndices(indices, all) ==
    IF indices = <<>> THEN <<>>
    ELSE LET i == Head(indices)
             rest == SelectByIndices(Tail(indices), all)
         IN IF IndexAccepted(i, Len(all)) THEN <<PyItem(all, i)>> \o rest ELSE rest

\* The custom_front / custom_back / custom_type loop, from position i on.
RECURSIVE CustomCardsFrom(_, _, _, _)
CustomCardsFrom(i, fronts, backs, types) ==
    IF i > Len(fronts) THEN <<>>
    ELSE LET rest == CustomCardsFrom(i + 1, fronts, backs, types)
         IN IF i <= Len(backs) /\ i <= Len(types)
               /\ strip(fronts[i]) # <<>> /\ strip(backs[i]) # <<>>
            THEN <<Card(types[i], strip(fronts[i]), strip(backs[i]))>> \o rest
            ELSE rest

CustomCards(fronts, backs, types) == CustomCardsFrom(1, fronts, backs, types)

\* A variant whose query filters by front only.
ExistsFrontAnyPresentation(table, front, pname) ==
    \E k \in DOMAIN table : table[k].front = front

\* A variant whose query does not see the rows added earlier in the request.
ExistsFrontCommitted(table, front, pname) ==
    \E k \in DOMAIN db :
        db[k].front = front /\ db[k].presentation_name = pname

\* Flashcard.query.filter_by(front=..., presentation_name=...).first() is not None.
\* The session autoflushes before the query, so rows added earlier in the same
\* request are in `table`.
ExistsFront(table, front, pname) ==
    \E k \in DOMAIN table :
        table[k].front = front /\ table[k].presentation_name = pname

\* A variant that ignores the clear_existing request.
ClearExistingNothing(table, pname) == table

\* The clear_existing step: every row of the presentation is deleted.
ClearExisting(table, pname) ==
    SelectSeq(table, LAMBDA row : row.presentation_name # pname)

\* A variant of the insert loop without the duplicate lookup.
InsertNewNoLookup(cards, table, pname) ==
    [db |-> table \o [i \in DOMAIN cards |->
                        Flashcard(cards[i].type, cards[i].front, cards[i].back, pname)],
     new_count |-> Len(cards), existing_count |-> 0]

\* The insert loop over selected_flashcards with its two counters.
RECURSIVE InsertNew(_, _, _)
InsertNew(cards, table, pname) ==
    IF cards = <<>> THEN [db |-> table, new_count |-> 0, existing_count |-> 0]
    ELSE LET card_data == Head(cards)
         IN IF ExistsFront(table, card_data.front, pname)
            THEN [InsertNew(Tail(cards), table, pname) EXCEPT !.existing_count = @ + 1]
            ELSE [InsertNew(Tail(cards),
                            Append(table, Flashcard(card_data.type, card_data.front,
                                                    card_data.back, pname)),
                            pname) EXCEPT !.new_count = @ + 1]

\* A variant without the default: session.get('presentation_name').
SessionPresentationNoDefault == presentation_name

\* session.get('presentation_name', 'custom')
SessionPresentation == IF presentation_name = Absent THEN Custom ELSE presentation_name

\* save_flashcards run against `table`.  fault says where the database raises:
\* in the clear_existing step (before its commit is durable) or in the insert
\* loop / final commit.  The handler's except branch does not undo the first
\* commit; the uncommitted inserts are discarded when the request's session is
\* removed.
SaveOn(table, tokens, fronts, backs, types, clear, fault) ==
    LET all == pending_flashcards
        pname == SessionPresentation
        indices == ParseIndices(tokens)
        Resp(o, t, sel, n, e) ==
            [outcome |-> o, db |-> t, selected_flashcards |-> sel,
             new_count |-> n, existing_count |-> e]
    IN IF all = <<>> THEN Resp("NoBatch", table, <<>>, 0, 0)
       ELSE IF indices = <<>> THEN Resp("NothingSelected", table, <<>>, 0, 0)
       ELSE IF RaisesIndexError(indices, all) THEN Resp("IndexError", table, <<>>, 0, 0)
       ELSE LET selected == SelectByIndices(indices, all) \o CustomCards(fronts, backs, types)
            IN IF selected = <<>> THEN Resp("NothingSelected", table, selected, 0, 0)
               ELSE IF clear /\ fault = "delete"
                    THEN Resp("PersistenceError", table, selected, 0, 0)
               ELSE LET base == IF clear THEN ClearExisting(table, pname) ELSE table
                        r == InsertNew(selected, base, pname)
                    IN IF fault = "insert"
                       THEN Resp("PersistenceError", base, selected, 0, 0)
                       ELSE Resp("ok", r.db, selected, r.new_count, r.existing_count)

\* A variant that runs the clear_existing step before the request is validated.
SaveResponseClearsFirst(tokens, fronts, backs, types, clear, fault) ==
    SaveOn(IF clear THEN ClearExisting(db, SessionPresentation) ELSE db,
           tokens, fronts, backs, types, clear, fault)

\* The response of save_flashcards and the table it leaves.
SaveResponse(tokens, fronts, backs, types, clear, fault) ==
    SaveOn(db, tokens, fronts, backs, types, clear, fault)

\* A variant that pops pending_flashcards but leaves presentation_name.
SessionAfterSaveKeepsName(outcome) ==
    [pending_flashcards |-> IF outcome = "ok" THEN <<>> ELSE pending_flashcards,
     presentation_name |-> presentation_name]

\* session.pop('pending_flashcards'), session.pop('presentation_name') on success.
SessionAfterSave(outcome) ==
    IF outcome = "ok"
    THEN [pending_flashcards |-> <<>>, presentation_name |-> Absent]
    ELSE [pending_flashcards |-> pending_flashcards, presentation_name |-> presentation_name]

SaveFlashcards(requests) ==
    \E req \in requests :
      \E r \in {SaveResponse(req.selected_cards, req.custom_fronts, req.custom_backs,
                             req.custom_types, req.clear_existing, req.fault)} :
        /\ req.fault = "delete" => req.clear_existing
        /\ Len(r.db) <= MaxStore
        /\ db' = r.db
        /\ pending_flashcards' = SessionAfterSave(r.outcome).pending_flashcards
        /\ presentation_name' = SessionAfterSave(r.outcome).presentation_name
        /\ last' = [NoRequest EXCEPT
                      !.op = "save_flashcards", !.outcome = r.outcome,
                      !.arg = SessionPresentation,
                      !.selected_cards = req.selected_cards,
                      !.custom_fronts = req.custom_fronts,
                      !.custom_backs = req.custom_backs,
                      !.custom_types = req.custom_types,
                      !.clear_existing = req.clear_existing,
                      !.selected_flashcards = r.selected_flashcards,
                      !.new_count = r.new_count, !.existing_count = r.existing_count,
                      !.prev_db = db]
        /\ UNCHANGED txn

save_flashcards == SaveFlashcards(ReviewRequests)

-----------------------------------------------------------------------------
(* POST /generate_ai_cards *)

\* The topic is blank, the generator raised, or it returned nothing.
generate_ai_cards_fail ==
    /\ \E o \in {"EmptyTopic", "GenerationError", "EmptyGeneration"} :
         last' = [NoRequest EXCEPT !.op = "generate_ai_cards", !.outcome = o, !.prev_db = db]
    /\ UNCHANGED <<db, pending_flashcards, presentation_name, txn>>

\* A variant that puts the new cards in front of the batch.
PrependGenerated(pending, generated_cards) == generated_cards \o pending

\* pending_flashcards.extend(generated_cards)
AppendGenerated(pending, generated_cards) == pending \o generated_cards

\* generate_topic_flashcards returned cards drawn from `pool`: they are trimmed
\* in place, appended to the session's list and returned in the response.
GenerateOk(pool) ==
    \E generated_cards \in SeqsOf(pool, 1, MaxBatch) :
        /\ Len(pending_flashcards) + Len(generated_cards) <= MaxBatch
        /\ pending_flashcards' = AppendGenerated(pending_flashcards, TrimAll(generated_cards))
        /\ last' = [NoRequest EXCEPT !.op = "generate_ai_cards", !.outcome = "ok",
                                     !.raw = generated_cards,
                                     !.returned = TrimAll(generated_cards), !.prev_db = db]
        /\ UNCHANGED <<db, presentation_name, txn>>

generate_ai_cards_ok == GenerateOk(GeneratePool)

generate_ai_cards == generate_ai_cards_fail \/ generate_ai_cards_ok

-----------------------------------------------------------------------------
(* GET /reset_all *)

\* session.clear() runs first; a database error afterwards is rolled back.
reset_all ==
    \E fault \in BOOLEAN :
        /\ pending_flashcards' = <<>>
        /\ presentation_name' = Absent
        /\ db' = IF fault THEN db ELSE <<>>
        /\ last' = [NoRequest EXCEPT !.op = "reset_all",
                                     !.outcome = IF fault THEN "PersistenceError" ELSE "ok",
                                     !.count = IF fault THEN 0 ELSE Len(db),
                                     !.prev_db = db]
        /\ UNCHANGED txn

(* POST /delete_all_flashcards *)

delete_all_flashcards ==
    \E fault \in BOOLEAN :
        /\ db' = IF fault THEN db ELSE <<>>
        /\ last' = [NoRequest EXCEPT !.op = "delete_all_flashcards",
                                     !.outcome = IF fault THEN "PersistenceError" ELSE "ok",
                                     !.count = IF fault THEN 0 ELSE Len(db),
                                     !.prev_db = db]
        /\ UNCHANGED <<pending_flashcards, presentation_name, txn>>

(* POST /delete_presentation_flashcards/<presentation_name> *)

\* 'presentation_name' in session and session['presentation_name'] == name
SessionMatches(name) == presentation_name # Absent /\ presentation_name = name

delete_presentation_flashcards ==
    \E name \in PresentationNames, fault \in BOOLEAN :
        LET matches == ~fault /\ SessionMatches(name)
        IN /\ db' = IF fault THEN db ELSE ClearExisting(db, name)
           /\ pending_flashcards' = IF matches THEN <<>> ELSE pending_flashcards
           /\ presentation_name' = IF matches THEN Absent ELSE presentation_name
           /\ last' = [NoRequest EXCEPT
                         !.op = "delete_presentation_flashcards",
                         !.outcome = IF fault THEN "PersistenceError" ELSE "ok",
                         !.arg = name,
                         !.count = IF fault THEN 0
                                   ELSE Len(db) - Len(ClearExisting(db, name)),
                         !.prev_db = db]
           /\ UNCHANGED txn

-----------------------------------------------------------------------------
(* POST /remove_duplicates *)

Sep == <<"|">>

\* f"{card.front.strip()}|{card.back.strip()}|{card.type.strip()}"
ContentKey(card) == strip(card.front) \o Sep \o strip(card.back) \o Sep \o strip(card.type)

\* A variant that removes a duplicate from the list it is iterating, so that the
\* row after a deleted row is skipped.
RECURSIVE CrossPassSkipsNext(_, _, _)
CrossPassSkipsNext(all_cards, j, seen) ==
    IF j > Len(all_cards) THEN {}
    ELSE LET content_key == ContentKey(all_cards[j])
         IN IF content_key \in seen
            THEN {j} \cup CrossPassSkipsNext(all_cards, j + 2, seen)
            ELSE CrossPassSkipsNext(all_cards, j + 1, seen \cup {content_key})

\* The first loop, from row j on: the positions of the rows it deletes.  seen
\* is the key set of seen_cards.
RECURSIVE CrossPass(_, _, _)
CrossPass(all_cards, j, seen) ==
    IF j > Len(all_cards) THEN {}
    ELSE LET content_key == ContentKey(all_cards[j])
         IN IF content_key \in seen
            THEN {j} \cup CrossPass(all_cards, j + 1, seen)
            ELSE CrossPass(all_cards, j + 1, seen \cup {content_key})

\* A variant of the inner loop that compares fronts after stripping them.
RECURSIVE FrontPassStripped(_, _, _)
FrontPassStripped(table, cards, fronts) ==
    IF cards = <<>> THEN {}
    ELSE LET card == table[Head(cards)]
         IN IF strip(card.front) \in fronts
            THEN {Head(cards)} \cup FrontPassStripped(table, Tail(cards), fronts)
            ELSE FrontPassStripped(table, Tail(cards), fronts \cup {strip(card.front)})

\* The inner loop of the second pass over the positions `cards` (ascending) of
\* one presentation: the positions it deletes.  fronts is the key set of
\* unique_fronts.
RECURSIVE FrontPass(_, _, _)
FrontPass(table, cards, fronts) ==
    IF cards = <<>> THEN {}
    ELSE LET card == table[Head(cards)]
         IN IF card.front \in fronts
            THEN {Head(cards)} \cup FrontPass(table, Tail(cards), fronts)
            ELSE FrontPass(table, Tail(cards), fronts \cup {card.front})

\* The ascending sequence of the positions in S.
RECURSIVE Ascending(_)
Ascending(S) ==
    IF S = {} THEN <<>>
    ELSE LET m == CHOOSE x \in S : \A y \in S : x <= y
         IN <<m>> \o Ascending(S \ {m})

\* A variant whose query still returns the rows the first pass deleted.
RemainingUnflushed(table, deleted, presentation) ==
    Ascending({k \in DOMAIN table : table[k].presentation_name = presentation})

\* Flashcard.query.filter_by(presentation_name=presentation).all() in the second
\* pass: the deletes of the first pass are flushed before the query runs.
Remaining(table, deleted, presentation) ==
    Ascending({k \in DOMAIN table :
                  k \notin deleted /\ table[k].presentation_name = presentation})

\* Both passes over `table`: what each deletes, the table left, total_removed.
Dedup(table) ==
    LET presentations == {table[k].presentation_name : k \in DOMAIN table}
        cross == CrossPass(table, 1, {})
        perPres == UNION {FrontPass(table, Remaining(table, cross, p), {}) :
                            p \in presentations}
        gone == cross \cup perPres
    IN [cross_deleted |-> cross,
        front_deleted |-> perPres,
        db |-> [k \in 1..(Len(table) - Cardinality(gone)) |->
                  table[Ascending(DOMAIN table \ gone)[k]]],
        total_removed |-> Cardinality(cross) + Cardinality(perPres)]

remove_duplicates ==
    \E fault \in BOOLEAN :
      \E r \in {Dedup(db)} :
        LET again == last.op = "remove_duplicates" /\ last.outcome = "ok"
        IN /\ db' = IF fault THEN db ELSE r.db
           /\ last' = [NoRequest EXCEPT
                         !.op = "remove_duplicates",
                         !.outcome = IF fault THEN "PersistenceError" ELSE "ok",
                         !.count = IF fault THEN 0 ELSE r.total_removed,
                         !.cross_deleted = IF fault THEN {} ELSE r.cross_deleted,
                         !.front_deleted = IF fault THEN {} ELSE r.front_deleted,
                         !.prior_removed = IF again THEN last.count ELSE -1,
                         !.prev_db = db]
           /\ UNCHANGED <<pending_flashcards, presentation_name, txn>>

-----------------------------------------------------------------------------
(* The application: requests of one session, handled one at a time *)

Next ==
    \/ upload_file
    \/ review_flashcards
    \/ save_flashcards
    \/ generate_ai_cards
    \/ reset_all
    \/ delete_all_flashcards
    \/ delete_presentation_flashcards
    \/ remove_duplicates

Spec == Init /\ [][Next]_vars

-----------------------------------------------------------------------------
(* One arbitrary POST to /save_flashcards, from any table and batch *)

\* The cards a session can hold: what upload and generation store.
StagedCards == {Trim(c) : c \in ExtractPool \cup GeneratePool}

RowPool ==
    {Flashcard(c.type, c.front, c.back, p) : c \in StagedCards, p \in PresentationNames}

\* No two rows of one presentation share a front: what the insert loop leaves.
FrontUnique(table) ==
    \A i, j \in DOMAIN table :
        (i < j /\ table[i].presentation_name = table[j].presentation_name)
            => table[i].front # table[j].front

InitSave ==
    /\ db \in {t \in SeqsOf(RowPool, 0, MaxPrior) : FrontUnique(t)}
    /\ pending_flashcards \in SeqsOf(StagedCards, 0, MaxBatch)
    /\ presentation_name \in FileNames \cup {Absent}
    /\ pending_flashcards = <<>> => presentation_name = Absent
    /\ last = NoRequest
    /\ txn = NoTxns

save_any_form == last.op = "start" /\ SaveFlashcards(AnyRequests)

NextSave == save_any_form

SpecSave == InitSave /\ [][NextSave]_vars

-----------------------------------------------------------------------------
(* Staging only: uploads and generations whose backs are short, exactly at the
   limit and over it *)

AtLimitBack == Rep("y", BackLimit)

StagePool ==
    {Card(Vocabulary, A, X), Card(Formula, B, AtLimitBack), Card(Problem, A, LongBack)}

stage_upload == UploadOk(StagePool)
stage_generate == GenerateOk(StagePool)

NextStage ==
    \/ upload_file_error
    \/ upload_file_empty
    \/ stage_upload
    \/ generate_ai_cards_fail
    \/ stage_generate

SpecStage == Init /\ [][NextStage]_vars

-----------------------------------------------------------------------------
(* The dedup pass over any table *)

DedupRowPool ==
    {Flashcard(Vocabulary, f, b, p) :
        f \in {A, <<" ", "a">>, <<"a", "|">>},
        b \in {A, <<"|", "a">>},
        p \in PresentationNames}
    \cup {Flashcard(Formula, A, A, p) : p \in PresentationNames}

InitDedup ==
    /\ db \in SeqsOf(DedupRowPool, 0, MaxDedupStore)
    /\ pending_flashcards = <<>>
    /\ presentation_name = Absent
    /\ last = NoRequest
    /\ txn = NoTxns

NextDedup == remove_duplicates

SpecDedup == InitDedup /\ [][NextDedup]_vars

-----------------------------------------------------------------------------
(* Two sessions posting to /save_flashcards at the same time.  Each request
   has its own database session: its queries see the committed table and the
   rows the request itself has flushed; its rows reach the table at commit.
   The database is taken not to raise here. *)

\* The cards the two sessions have staged, and the rows already stored.
ConcCards == {Card(Vocabulary, A, X), Card(Formula, B, Y)}

ConcRowPool ==
    {Flashcard(c.type, c.front, c.back, p) : c \in ConcCards, p \in PresentationNames}

ConcTables == {t \in SeqsOf(ConcRowPool, 0, MaxConcPrior) : FrontUnique(t)}

InitConc ==
    /\ db \in ConcTables
    /\ pending_flashcards = <<>>
    /\ presentation_name = Absent
    /\ last = [NoRequest EXCEPT !.prev_db = db]
    /\ txn \in [Sessions ->
                 {Txn("ready", batch, name, Absent, <<>>, FALSE, 1, <<>>) :
                     batch \in SeqsOf(ConcCards, 1, MaxBatch),
                     name \in FileNames \cup {Absent}}]

\* Lines 208-256: the form is read and the candidates are built.  A request
\* that selects nothing returns without touching the database.
save_begin(s) ==
    /\ txn[s].pc = "ready"
    /\ \E tokens \in SeqsOf(ReviewTokens, 1, MaxSel), clear \in BOOLEAN :
         LET selected == SelectByIndices(ParseIndices(tokens), txn[s].pending_flashcards)
         IN txn' = [txn EXCEPT
                      ![s].pname = IF txn[s].presentation_name = Absent
                                   THEN Custom ELSE txn[s].presentation_name,
                      ![s].selected_flashcards = selected,
                      ![s].clear_existing = clear,
                      ![s].pc = IF selected = <<>> THEN "done"
                                ELSE IF clear THEN "clear" ELSE "insert"]
    /\ UNCHANGED <<db, pending_flashcards, presentation_name, last>>

\* Lines 261-265: the rows of the presentation are deleted and the deletion is
\* committed.
save_clear_existing(s) ==
    /\ txn[s].pc = "clear"
    /\ db' = ClearExisting(db, txn[s].pname)
    /\ txn' = [txn EXCEPT ![s].pc = "insert"]
    /\ UNCHANGED <<pending_flashcards, presentation_name, last>>

\* Lines 271-289, one turn of the insert loop: the lookup and, if it finds no
\* row, the add.
save_lookup(s) ==
    /\ txn[s].pc = "insert"
    /\ txn[s].next <= Len(txn[s].selected_flashcards)
    /\ LET card_data == txn[s].selected_flashcards[txn[s].next]
       IN txn' = [txn EXCEPT
                    ![s].next = @ + 1,
                    ![s].added =
                        IF ExistsFront(db \o txn[s].added, card_data.front, txn[s].pname)
                        THEN @
                        ELSE Append(@, Flashcard(card_data.type, card_data.front,
                                                 card_data.back, txn[s].pname))]
    /\ UNCHANGED <<db, pending_flashcards, presentation_name, last>>

\* Lines 291-296: the commit, then the two session keys are popped.
save_commit(s) ==
    /\ txn[s].pc = "insert"
    /\ txn[s].next > Len(txn[s].selected_flashcards)
    /\ db' = db \o txn[s].added
    /\ txn' = [txn EXCEPT ![s].pc = "done", ![s].added = <<>>,
                          ![s].pending_flashcards = <<>>,
                          ![s].presentation_name = Absent]
    /\ UNCHANGED <<pending_flashcards, presentation_name, last>>

NextConc ==
    \E s \in Sessions :
        \/ save_begin(s)
        \/ save_clear_existing(s)
        \/ save_lookup(s)
        \/ save_commit(s)

SpecConc == InitConc /\ [][NextConc]_vars

-----------------------------------------------------------------------------
(* Properties *)

Saved == last.op = "save_flashcards"
SavedOk == Saved /\ last.outcome = "ok"
Deduped == last.op = "remove_duplicates" /\ last.outcome = "ok"

\* The rows of `table` that belong to presentation pname, in table order.
RowsOf(table, pname) == SelectSeq(table, LAMBDA row : row.presentation_name = pname)

\* How many rows of `table` have this front under this presentation.
CountFront(table, front, pname) ==
    Cardinality({k \in DOMAIN table :
                    table[k].front = front /\ table[k].presentation_name = pname})

\* Some front occurs twice in the candidate list.
RepeatsFront(cards) == \E i, j \in DOMAIN cards : i < j /\ cards[i].front = cards[j].front

\* C1: in every reachable state no two persisted records have both the same
\* presentationName and the same front.
C1_FrontUniquePerPresentation == FrontUnique(db)

\* A successful commit whose candidate set repeats a front that the store did
\* not hold before: the repeat is skipped, not inserted.
C1_Witness ==
    /\ SavedOk
    /\ RepeatsFront(last.selected_flashcards)
    /\ last.custom_fronts # <<>>
    /\ last.new_count >= 1
    /\ last.existing_count >= 1
    /\ \A k \in DOMAIN last.selected_flashcards :
          ~ExistsFront(last.prev_db, last.selected_flashcards[k].front, last.arg)

\* C2: a successful commit without clearExisting of one candidate whose front is
\* already persisted under the session's presentation inserts nothing, reports
\* one skipped duplicate, and leaves exactly one record with that front and
\* presentation.
C2_SecondCommitSkips ==
    (/\ SavedOk
     /\ ~last.clear_existing
     /\ Len(last.selected_flashcards) = 1
     /\ ExistsFront(last.prev_db, last.selected_flashcards[1].front, last.arg))
    => /\ last.new_count = 0
       /\ last.existing_count = 1
       /\ CountFront(db, last.selected_flashcards[1].front, last.arg) = 1
       /\ db = last.prev_db

C2_Witness ==
    /\ SavedOk
    /\ ~last.clear_existing
    /\ Len(last.selected_flashcards) = 1
    /\ ExistsFront(last.prev_db, last.selected_flashcards[1].front, last.arg)
    /\ last.existing_count = 1

\* The request selects nothing and carries no custom entry.
EmptyRequest == Saved /\ last.selected_cards = <<>> /\ last.custom_fronts = <<>>

\* C3 as stated: a commit with empty selectedIndices and no custom entries
\* reports NothingSelected and leaves the persisted store as it was.
C3_AsStated ==
    EmptyRequest => (last.outcome = "NothingSelected" /\ db = last.prev_db)

\* C3 amended: such a commit leaves the persisted store as it was for every
\* value of clearExisting; it reports NothingSelected when a batch is staged
\* and NoBatch when none is.
C3_EmptyRequestChangesNothing ==
    EmptyRequest =>
        /\ db = last.prev_db
        /\ last.outcome = IF pending_flashcards = <<>> THEN "NoBatch" ELSE "NothingSelected"

\* An empty request with clearExisting set, while the store holds rows of the
\* staged presentation.
C3_Witness ==
    /\ EmptyRequest
    /\ last.clear_existing
    /\ last.outcome = "NothingSelected"
    /\ RowsOf(last.prev_db, last.arg) # <<>>

\* C4: a commit against an existing batch with no selected indices and at least
\* one custom entry whose trimmed prompt and explanation are non-empty does not
\* report NothingSelected.
C4_CustomAloneIsCommitted ==
    (/\ Saved
     /\ last.outcome # "NoBatch"
     /\ last.selected_cards = <<>>
     /\ CustomCards(last.custom_fronts, last.custom_backs, last.custom_types) # <<>>)
    => last.outcome # "NothingSelected"

\* C5: selected indices that are all negative contribute no candidate and raise
\* no error, so with no custom entry the commit reports NothingSelected.
C5_NegativeIndexSelectsNothing ==
    (/\ Saved
     /\ last.outcome # "NoBatch"
     /\ last.selected_cards # <<>>
     /\ \A k \in DOMAIN last.selected_cards :
           last.selected_cards[k].numeric /\ last.selected_cards[k].value < 0
     /\ last.custom_fronts = <<>>)
    => last.outcome = "NothingSelected"

\* C6: a commit that fails with PersistenceError leaves the persisted store
\* exactly as it was before the call.
C6_FailedCommitRollsBack ==
    (Saved /\ last.outcome = "PersistenceError") => db = last.prev_db

\* The candidates of the last commit as rows of its presentation.
CandidateRows ==
    [i \in DOMAIN last.selected_flashcards |->
        Flashcard(last.selected_flashcards[i].type, last.selected_flashcards[i].front,
                  last.selected_flashcards[i].back, last.arg)]

\* C7: after a successful commit with clearExisting whose candidates have
\* pairwise distinct fronts, the records of the presentation are exactly those
\* candidates, whatever the store held before.
C7_ClearLeavesExactlyCandidates ==
    (SavedOk /\ last.clear_existing /\ ~RepeatsFront(last.selected_flashcards))
    => /\ RowsOf(db, last.arg) = CandidateRows
       /\ last.new_count = Len(last.selected_flashcards)

\* A replacing commit of two candidates over a presentation that held one row.
C7_Witness ==
    /\ SavedOk
    /\ last.clear_existing
    /\ ~RepeatsFront(last.selected_flashcards)
    /\ Len(last.selected_flashcards) = 2
    /\ Len(RowsOf(last.prev_db, last.arg)) = 1
    /\ Len(RowsOf(db, last.arg)) = 2

\* C8: a successful commit empties the session's staging store, so that a
\* review or a commit that follows it reports NoBatch and inserts nothing; a
\* commit that does not succeed leaves the batch and its sourceName unchanged.
C8_StagingAfterCommit ==
    [][/\ (last'.op = "save_flashcards" /\ last'.outcome = "ok")
            => (pending_flashcards' = <<>> /\ presentation_name' = Absent)
       /\ (last'.op = "save_flashcards" /\ last'.outcome # "ok")
            => UNCHANGED <<pending_flashcards, presentation_name>>
       /\ (SavedOk /\ last'.op = "review_flashcards") => last'.outcome = "NoBatch"
       /\ (SavedOk /\ last'.op = "save_flashcards")
            => (last'.outcome = "NoBatch" /\ db' = db)]_vars

\* A commit attempted with no batch staged, after rows were committed.
C8_Witness ==
    /\ Saved
    /\ last.outcome = "NoBatch"
    /\ last.selected_cards # <<>>
    /\ pending_flashcards = <<>>
    /\ presentation_name = Absent
    /\ db # <<>>

\* C9: a dedup pass that directly follows a successful dedup pass removes
\* nothing and leaves the store equal to what the first pass left.
C9_DedupIdempotent ==
    (Deduped /\ last.prior_removed >= 0) => (last.count = 0 /\ db = last.prev_db)

\* A second pass after a first pass that removed rows.
C9_Witness == Deduped /\ last.prior_removed >= 1 /\ db # <<>>

\* (front, back, kind) with surrounding whitespace stripped from each field.
StrippedTuple(row) == <<strip(row.front), strip(row.back), strip(row.type)>>

\* C10: the cross-document pass deletes a record if and only if an earlier
\* record has the identical stripped (front, back, kind) tuple.
C10_CrossPassComparesTuples ==
    Deduped =>
        last.cross_deleted =
            {j \in DOMAIN last.prev_db :
                \E i \in 1..(j - 1) :
                    StrippedTuple(last.prev_db[i]) = StrippedTuple(last.prev_db[j])}

\* Two rows of `table` share the stripped (front, back, kind) tuple.
SharesTuple(table) ==
    \E i, j \in DOMAIN table : i < j /\ StrippedTuple(table[i]) = StrippedTuple(table[j])

\* The rows of the table before the pass that the cross-document pass kept.
Survivors == DOMAIN last.prev_db \ last.cross_deleted

\* C11: the per-presentation pass deletes exactly the survivors of the
\* cross-document pass that follow a survivor of the same presentation with the
\* same exact front, whatever their back or kind; after the pass no two rows of
\* one presentation share a front and no two rows share the stripped tuple.
C11_FrontPassOnSurvivors ==
    Deduped =>
        /\ last.front_deleted =
              {j \in Survivors :
                  \E i \in Survivors :
                      /\ i < j
                      /\ last.prev_db[i].presentation_name = last.prev_db[j].presentation_name
                      /\ last.prev_db[i].front = last.prev_db[j].front}
        /\ FrontUnique(db)
        /\ ~SharesTuple(db)

\* A pass that deleted a row in the first pass
\* and deleted in the second a row whose back and kind both differ from the row
\* kept for its front.
C11_Witness ==
    /\ Deduped
    /\ last.cross_deleted # {}
    /\ \E j \in last.front_deleted, i \in Survivors :
          /\ i < j
          /\ last.prev_db[i].presentation_name = last.prev_db[j].presentation_name
          /\ last.prev_db[i].front = last.prev_db[j].front
          /\ last.prev_db[i].back # last.prev_db[j].back
          /\ last.prev_db[i].type # last.prev_db[j].type

\* Rows of one presentation whose fronts are equal only after stripping are
\* both kept by the pass.
C11_WitnessExactFront ==
    /\ Deduped
    /\ \E i, j \in DOMAIN db :
          /\ i < j
          /\ db[i].presentation_name = db[j].presentation_name
          /\ db[i].front # db[j].front
          /\ strip(db[i].front) = strip(db[j].front)

\* C20: the count the dedup pass reports is the size of the table before the
\* pass minus its size after, and no row is deleted (and counted) by both the
\* cross-document pass and the per-presentation pass.
C20_CountIsSizeDifference ==
    Deduped =>
        /\ last.count = Len(last.prev_db) - Len(db)
        /\ last.count = Cardinality(last.cross_deleted) + Cardinality(last.front_deleted)
        /\ last.cross_deleted \cap last.front_deleted = {}

\* A pass over three rows in which each pass deleted one row of the same
\* presentation.
C20_Witness ==
    /\ Deduped
    /\ Len(last.prev_db) = 3
    /\ last.count = 2
    /\ Len(db) = 1
    /\ \E i \in last.cross_deleted, j \in last.front_deleted :
          last.prev_db[i].presentation_name = last.prev_db[j].presentation_name

UploadedOk == last.op = "upload_file" /\ last.outcome = "ok"
GeneratedOk == last.op = "generate_ai_cards" /\ last.outcome = "ok"

\* What the trimming is stated to store for a back.
StoredBack(back) ==
    IF Len(back) > 300 THEN SubSeq(back, 1, 297) \o <<".", ".", ".">> ELSE back

\* The cards the last upload or generation put in the batch, as the batch holds
\* them: the whole batch after an upload, its tail after a generation.
LastStored ==
    SubSeq(pending_flashcards,
           Len(pending_flashcards) - Len(last.raw) + 1, Len(pending_flashcards))

\* C12: every staged card has a back of at most 300 characters, and the cards an
\* upload or a generation just stored are the cards it received with every back
\* longer than 300 replaced by its first 297 characters and "...", 300
\* characters in all, and every other back unchanged.
C12_StagedBacksTrimmed ==
    /\ \A i \in DOMAIN pending_flashcards : Len(pending_flashcards[i].back) <= 300
    /\ (UploadedOk \/ GeneratedOk) =>
          /\ Len(last.raw) <= Len(pending_flashcards)
          /\ \A i \in DOMAIN last.raw :
                /\ LastStored[i].back = StoredBack(last.raw[i].back)
                /\ Len(last.raw[i].back) > 300 => Len(LastStored[i].back) = 300
                /\ LastStored[i].front = last.raw[i].front
                /\ LastStored[i].type = last.raw[i].type

\* A batch holding an uploaded card whose back had 301 characters and a generated
\* card whose back had 301 characters, next to one of exactly 300.
C12_Witness ==
    /\ GeneratedOk
    /\ presentation_name # Absent
    /\ Len(pending_flashcards) = 2
    /\ Len(last.raw) = 1
    /\ Len(last.raw[1].back) = 301
    /\ Len(pending_flashcards[2].back) = 300
    /\ pending_flashcards[1].back = Rep("y", 300)

\* C13: an upload that extracts nothing and a generation that returns nothing
\* leave the session's batch, its presentation name and the table as they were.
C13_EmptyResultChangesNothing ==
    [][(\/ last'.op = "upload_file" /\ last'.outcome = "EmptyExtraction"
        \/ last'.op = "generate_ai_cards" /\ last'.outcome = "EmptyGeneration")
       => UNCHANGED <<db, pending_flashcards, presentation_name>>]_vars

\* An upload extracted nothing while a batch was staged and rows were stored.
C13_Witness ==
    /\ last.op = "upload_file"
    /\ last.outcome = "EmptyExtraction"
    /\ pending_flashcards # <<>>
    /\ presentation_name # Absent
    /\ db # <<>>

\* C14: a generation that returns cards leaves the cards already in the batch at
\* their positions and the presentation name as they were, puts the new trimmed
\* cards after them in the order generated, and returns the new cards only.
C14_AppendKeepsPositions ==
    [][(last'.op = "generate_ai_cards" /\ last'.outcome = "ok") =>
          /\ Len(pending_flashcards') = Len(pending_flashcards) + Len(last'.raw)
          /\ SubSeq(pending_flashcards', 1, Len(pending_flashcards)) = pending_flashcards
          /\ SubSeq(pending_flashcards', Len(pending_flashcards) + 1,
                    Len(pending_flashcards')) = last'.returned
          /\ last'.returned = [i \in DOMAIN last'.raw |->
                                 [last'.raw[i] EXCEPT !.back = StoredBack(@)]]
          /\ presentation_name' = presentation_name
          /\ db' = db]_vars

\* A generation added one card to an uploaded batch of one different card.
C14_Witness ==
    /\ GeneratedOk
    /\ presentation_name # Absent
    /\ Len(pending_flashcards) = 2
    /\ Len(last.returned) = 1
    /\ pending_flashcards[1] # pending_flashcards[2]
    /\ pending_flashcards[2] = last.returned[1]

\* C15: a reset that succeeds leaves no batch and an empty table and reports the
\* number of rows the table held; a reset whose deletion fails leaves the table
\* and the session's batch as they were.
C15_ResetAtomic ==
    [][last'.op = "reset_all" =>
          IF last'.outcome = "ok"
          THEN /\ pending_flashcards' = <<>>
               /\ db' = <<>>
               /\ last'.count = Len(db)
          ELSE UNCHANGED <<db, pending_flashcards, presentation_name>>]_vars

\* The presentation name a batch is committed under: session.get with the
\* default 'custom'.
SourceName == IF presentation_name = Absent THEN "custom" ELSE presentation_name

\* C16: deleting a presentation deletes exactly the rows of that name, and
\* clears the session's batch if and only if the name the batch is committed
\* under equals that name, 'custom' for a batch that generation alone created.
C16_DeleteClearsMatchingBatch ==
    [][(last'.op = "delete_presentation_flashcards" /\ last'.outcome = "ok") =>
          /\ db' = SelectSeq(db, LAMBDA row : row.presentation_name # last'.arg)
          /\ IF pending_flashcards # <<>> /\ SourceName = last'.arg
             THEN pending_flashcards' = <<>>
             ELSE UNCHANGED <<pending_flashcards, presentation_name>>]_vars

\* C18: an upload or a generation that reports a failure leaves the session's
\* batch, its presentation name and the table as they were before the request.
C18_FailureChangesNothing ==
    [][(last'.op \in {"upload_file", "generate_ai_cards"} /\ last'.outcome # "ok")
       => UNCHANGED <<db, pending_flashcards, presentation_name>>]_vars

\* The extraction raised, and a generation failed, while a batch with a card of
\* every kind the pool has was staged and rows were stored.
C18_Witness ==
    /\ \/ last.op = "upload_file" /\ last.outcome = "ExtractionError"
       \/ last.op = "generate_ai_cards" /\ last.outcome = "GenerationError"
    /\ Len(pending_flashcards) = 2
    /\ pending_flashcards[1].type # pending_flashcards[2].type
    /\ presentation_name # Absent
    /\ db # <<>>

\* The positions of the batch a request names, when every entry of the form
\* list is an index inside the batch and no index is named twice.
NamesPositions(tokens, n) ==
    /\ \A k \in DOMAIN tokens : tokens[k].numeric /\ tokens[k].value \in 0..(n - 1)
    /\ \A k, l \in DOMAIN tokens : tokens[k].value = tokens[l].value => k = l

\* The items of `all` at the named positions, in batch order.
InBatchOrder(tokens, all) ==
    LET positions == {tokens[k].value + 1 : k \in DOMAIN tokens}
    IN [k \in 1..Cardinality(positions) |-> all[Ascending(positions)[k]]]

\* C19: the candidate set of a commit lists the selected batch items in batch
\* order, whatever the order the indices were submitted in, followed by the
\* custom cards in submission order.
C19_CandidatesInBatchOrder ==
    [][(/\ last'.op = "save_flashcards"
        /\ last'.outcome = "ok"
        /\ NamesPositions(last'.selected_cards, Len(pending_flashcards)))
       => last'.selected_flashcards =
             InBatchOrder(last'.selected_cards, pending_flashcards)
             \o CustomCards(last'.custom_fronts, last'.custom_backs, last'.custom_types)]_vars

\* What one request leaves when it runs alone on `table`.
SerialSave(table, t) ==
    IF t.selected_flashcards = <<>> THEN table
    ELSE InsertNew(t.selected_flashcards,
                   IF t.clear_existing
                   THEN SelectSeq(table, LAMBDA row : row.presentation_name # t.pname)
                   ELSE table,
                   t.pname).db

\* The two tables hold the same rows the same number of times.
SameRows(t1, t2) ==
    /\ Len(t1) = Len(t2)
    /\ \A k \in DOMAIN t1 :
          Cardinality({i \in DOMAIN t1 : t1[i] = t1[k]})
          = Cardinality({i \in DOMAIN t2 : t2[i] = t1[k]})

BothDone == \A s \in Sessions : txn[s].pc = "done"

\* C17: two commits of different sessions that run at the same time leave a
\* table that one of the two one-after-the-other executions also leaves, and
\* never two rows with the same front and presentation name.
C17_CommitsSerialized ==
    BothDone =>
        /\ \/ SameRows(db, SerialSave(SerialSave(last.prev_db, txn[1]), txn[2]))
           \/ SameRows(db, SerialSave(SerialSave(last.prev_db, txn[2]), txn[1]))
        /\ FrontUnique(db)

\* The rows of the table after position n.
RowsAfter(table, n) == SubSeq(table, n + 1, Len(table))

\* The rows of `table` whose presentation is not pname, in table order.
RowsNotOf(table, pname) == SelectSeq(table, LAMBDA row : row.presentation_name # pname)

\* C21: after a successful commit the inserted and the skipped counts add up to
\* the number of candidates, repeated candidates counted one by one; without
\* clear_existing the table grows by exactly the inserted count; and every
\* inserted row carries the batch's presentation name, 'custom' when the
\* session has none.
C21_CountsAndNames ==
    [][(last'.op = "save_flashcards" /\ last'.outcome = "ok") =>
          /\ last'.new_count + last'.existing_count = Len(last'.selected_flashcards)
          /\ ~last'.clear_existing => Len(db') = Len(db) + last'.new_count
          /\ Len(db') >= last'.new_count
          /\ \A k \in DOMAIN db' :
                k > Len(db') - last'.new_count => db'[k].presentation_name = SourceName]_vars

\* A commit without clear_existing of a batch that has no presentation name,
\* whose form named the same card twice: one row inserted, one candidate skipped,
\* next to rows the table already held.
C21_Witness ==
    /\ SavedOk
    /\ ~last.clear_existing
    /\ last.arg = "custom"
    /\ Len(last.selected_flashcards) = 2
    /\ last.selected_flashcards[1] = last.selected_flashcards[2]
    /\ last.new_count = 1
    /\ last.existing_count = 1
    /\ last.prev_db # <<>>
    /\ Len(db) = Len(last.prev_db) + 1

\* C22: a commit under presentation P leaves the rows of every other
\* presentation as they were, in every outcome; without clear_existing the rows
\* the table held stay in place unchanged; and when it succeeds, a candidate
\* whose front was stored only under another presentation has a row under P.
C22_OtherPresentationsUntouched ==
    [][last'.op = "save_flashcards" =>
          /\ RowsNotOf(db', SourceName) = RowsNotOf(db, SourceName)
          /\ ~last'.clear_existing =>
                Len(db') >= Len(db) /\ SubSeq(db', 1, Len(db)) = db
          /\ last'.outcome = "ok" =>
                \A i \in DOMAIN last'.selected_flashcards :
                    \E k \in DOMAIN db' :
                        /\ db'[k].front = last'.selected_flashcards[i].front
                        /\ db'[k].presentation_name = SourceName]_vars

\* A successful commit under one presentation of a card whose front the table
\* held only under the other presentation: the old row is still there and the
\* new row is stored under the batch's name.
C22_Witness ==
    /\ SavedOk
    /\ Len(last.prev_db) = 1
    /\ last.prev_db[1].presentation_name # last.arg
    /\ Len(last.selected_flashcards) = 1
    /\ last.selected_flashcards[1].front = last.prev_db[1].front
    /\ last.new_count = 1
    /\ Len(db) = 2
    /\ db[1] = last.prev_db[1]
    /\ db[2].presentation_name = last.arg
    /\ db[2].front = last.prev_db[1].front

====
